---- MODULE Spec2Model ----
(***************************************************************************)
(* The ng-add schematic of @skyux-sdk/prettier-schematics: the rule        *)
(* configureESLint(workspace), which walks the "extends" chains of the     *)
(* .eslintrc.json files of a workspace and appends 'prettier' to the       *)
(* override-extension list of every terminal file.                         *)
(*                                                                         *)
(* A path string is a record [abs, segs]: abs says that the string starts  *)
(* with '/', segs are its non-empty segments.  The virtual tree is keyed   *)
(* by the segments of the absolute form of a path.                         *)
(***************************************************************************)
EXTENDS Integers, Sequences, FiniteSets, TLC

VARIABLES
    tree,                  \* the virtual file tree: file key -> file text
    projects,              \* workspace.projects: the project roots, in insertion order
    updatedESLintConfigs,  \* the keys set in the object updatedESLintConfigs
    rule,                  \* the rule of the ngAdd chain that runs next
    nextStart,             \* index of the next starting point of configureESLint
    error,                 \* the exception that rejected the run, or "none"
    outcome,               \* how the latest starting point ended
    tree0,                 \* history: the tree when the first run began
    treeBefore,            \* history: the tree when the latest starting point began
    errorArgs,             \* the paths the exception's message names
    starts,                \* history: the paths of the top-level calls, in order
    tasks,                 \* the tasks registered with context.addTask
    runs                   \* history: the number of the run of the schematic under way

vars == <<tree, projects, updatedESLintConfigs, rule, nextStart, error, outcome,
          tree0, treeBefore, errorArgs, starts, tasks, runs>>

-----------------------------------------------------------------------------
(* Bounds of the model. *)

MaxProjects == 2      \* projects in the workspace
StackLimit == 4       \* nested calls the engine's call stack holds
MaxRuns == 2          \* runs of the schematic on one workspace

-----------------------------------------------------------------------------
(* Path strings. *)

Str(abs, segs) == [abs |-> abs, segs |-> segs]

EmptyStr == Str(FALSE, <<>>)

fileName == Str(FALSE, <<".eslintrc.json">>)

\* The template string `${a}/${b}`.
Concat(a, b) ==
    IF a = EmptyStr THEN Str(TRUE, b.segs)
    ELSE Str(a.abs, a.segs \o b.segs)

\* path.dirname of a path string.
Dirname(p) ==
    IF Len(p.segs) <= 1
    THEN (IF p.abs THEN Str(TRUE, <<>>) ELSE Str(FALSE, <<".">>))
    ELSE Str(p.abs, SubSeq(p.segs, 1, Len(p.segs) - 1))

RECURSIVE NormSegs(_, _, _)
\* The segment loop of normalize: '.' is dropped, '..' removes the segment
\* before it, is kept at the front of a relative path and is invalid at the
\* front of an absolute one.
NormSegs(segs, stack, abs) ==
    IF segs = <<>> THEN [ok |-> TRUE, segs |-> stack]
    ELSE LET s == Head(segs)
             rest == Tail(segs)
         IN  IF s = "." THEN NormSegs(rest, stack, abs)
             ELSE IF s = ".."
             THEN IF stack = <<>> \/ stack[Len(stack)] = ".."
                  THEN IF abs THEN [ok |-> FALSE, segs |-> <<>>]
                       ELSE NormSegs(rest, Append(stack, ".."), abs)
                  ELSE NormSegs(rest, SubSeq(stack, 1, Len(stack) - 1), abs)
             ELSE NormSegs(rest, Append(stack, s), abs)

\* normalize of @angular-devkit/core: [ok, path]; ok is FALSE when it throws.
Normalize(p) ==
    LET r == NormSegs(p.segs, <<>>, p.abs)
    IN  [ok |-> r.ok, path |-> Str(p.abs, r.segs)]

\* The key under which the tree stores a path: normalize('/' + path).
TreeKey(p) == NormSegs(p.segs, <<>>, TRUE)

-----------------------------------------------------------------------------
(* File texts and configuration objects. *)

Absent == [kind |-> "absent"]

Malformed == [kind |-> "malformed"]

NoOverrides == [hasExtends |-> FALSE, extends |-> <<>>, rest |-> {}]

Cfg(hasExt, ext, hasOvr, ovr, other) ==
    [hasExtends |-> hasExt, extends |-> ext,
     hasOverrides |-> hasOvr, overrides |-> ovr, other |-> other]

Text(fmt, val) == [kind |-> "json", fmt |-> fmt, val |-> val]

\* commentJson.parse of a well-formed text.
Parse(text) == text.val

\* commentJson.stringify(contents, undefined, 2).
Stringify(val) == Text("indent2", val)

Lookup(t, key) == IF key \in DOMAIN t THEN t[key] ELSE Absent

\* A variant that reports every path of the tree as existing.
ExistsAlways(t, p) == [ok |-> TreeKey(p).ok, is |-> TreeKey(p).ok]

\* tree.exists(path): [ok, is]; ok is FALSE when the path leaves the tree root.
Exists(t, p) ==
    LET k == TreeKey(p)
    IN  [ok |-> k.ok, is |-> k.ok /\ Lookup(t, k.segs) # Absent]

\* readJsonFile: the parsed object of an existing file, {} for a missing one;
\* ok is FALSE when the parser throws.
EmptyObject == Cfg(FALSE, EmptyStr, FALSE, NoOverrides, {})

ReadJsonFile(t, p) ==
    LET text == Lookup(t, TreeKey(p).segs)
    IN  IF text = Absent THEN [ok |-> TRUE, val |-> EmptyObject]
        ELSE IF text = Malformed THEN [ok |-> FALSE, val |-> EmptyObject]
        ELSE [ok |-> TRUE, val |-> Parse(text)]

\* A variant that creates a missing file and leaves an existing one as it is.
WriteTextFileIfMissing(t, p, contents) ==
    IF Lookup(t, TreeKey(p).segs) # Absent THEN t
    ELSE (TreeKey(p).segs :> contents) @@ t

\* writeTextFile: overwrite an existing file, create a missing one.
WriteTextFile(t, p, contents) == (TreeKey(p).segs :> contents) @@ t

\* writeJsonFile: the object, serialised, through writeTextFile.
WriteJsonFile(t, p, val) == WriteTextFile(t, p, Stringify(val))

\* A variant that never follows an extends field.
ExtendsNeverSet(cfg) == FALSE

\* `if (eslintConfig.extends)`: a missing field and the empty string are falsy.
ExtendsIsSet(cfg) == cfg.hasExtends /\ cfg.extends # EmptyStr

\* A variant that resolves the extends value against the workspace root.
ExtendsPathFromRoot(p, cfg) == Normalize(cfg.extends)

\* normalize(`${parentFolder}/${eslintConfig.extends}`)
ExtendsPath(p, cfg) == Normalize(Concat(Dirname(p), cfg.extends))

\* A variant that puts 'prettier' in front of the list.
AddPrettierFirst(cfg) ==
    LET ovr == IF cfg.hasOverrides THEN cfg.overrides ELSE NoOverrides
        list == IF ovr.hasExtends THEN ovr.extends ELSE <<>>
    IN  [cfg EXCEPT !.hasOverrides = TRUE,
                    !.overrides = [hasExtends |-> TRUE,
                                   extends |-> <<"prettier">> \o list,
                                   rest |-> ovr.rest]]

\* A variant that writes a fresh object holding the overrides block alone.
AddPrettierAlone(cfg) ==
    LET ovr == IF cfg.hasOverrides THEN cfg.overrides ELSE NoOverrides
        list == IF ovr.hasExtends THEN ovr.extends ELSE <<>>
    IN  Cfg(FALSE, EmptyStr, TRUE,
            [hasExtends |-> TRUE, extends |-> Append(list, "prettier"), rest |-> ovr.rest],
            {})

\* overrides = overrides || {}; overrides.extends = overrides.extends || [];
\* overrides.extends.push('prettier')
AddPrettier(cfg) ==
    LET ovr == IF cfg.hasOverrides THEN cfg.overrides ELSE NoOverrides
        list == IF ovr.hasExtends THEN ovr.extends ELSE <<>>
    IN  [cfg EXCEPT !.hasOverrides = TRUE,
                    !.overrides = [hasExtends |-> TRUE,
                                   extends |-> Append(list, "prettier"),
                                   rest |-> ovr.rest]]

\* `if (updatedESLintConfigs[eslintConfigPath])`
AlreadyUpdated(u, p) == p \in u

\* The result of one call: the tree and the memo it leaves, the exception it
\* throws ("none" when it returns) and how it ended.
Returned(t, u, how) ==
    [tree |-> t, updated |-> u, error |-> "none", outcome |-> how, args |-> <<>>]

\* A variant that undoes the run's writes before it throws.
ThrownRolledBack(t, u, kind) ==
    [tree |-> tree0, updated |-> u, error |-> kind, outcome |-> "Thrown", args |-> <<>>]

Thrown(t, u, kind) ==
    [tree |-> t, updated |-> u, error |-> kind, outcome |-> "Thrown", args |-> <<>>]

\* A variant that takes a missing extends target for a missing starting file.
ExtendsTargetSkipped(t, u, p, target) == Returned(t, u, "Skipped")

\* A variant whose message gives the extends value as written in the file.
ExtendsTargetNotFoundAsWritten(t, u, p, target) ==
    [Thrown(t, u, "BrokenExtendsChain") EXCEPT
        !.args = <<p, Lookup(t, TreeKey(p).segs).val.extends>>]

\* A variant that creates a missing extends target and merges into it.
ExtendsTargetCreated(t, u, p, target) ==
    Returned(WriteJsonFile(t, target, AddPrettier(EmptyObject)), u \cup {target}, "Merged")

\* `throw new SchematicsException(`${eslintConfigPath} extends ${extendsPath},
\* but ${extendsPath} was not found in the workspace.`)`
ExtendsTargetNotFound(t, u, p, target) ==
    [Thrown(t, u, "BrokenExtendsChain") EXCEPT !.args = <<p, target>>]

\* A variant of the merge that sets the memo and does not write the file back.
MergedUnwritten(t, u, p, cfg) == Returned(t, u \cup {p}, "Merged")

\* The else branch: add 'prettier', write the file back, set the memo.
Merged(t, u, p, cfg) ==
    Returned(WriteJsonFile(t, p, AddPrettier(cfg)), u \cup {p}, "Merged")

RECURSIVE addPrettierPluginToESLintConfig(_, _, _, _)
\* One call of addPrettierPluginToESLintConfig(eslintConfigPath) at call depth
\* `depth`, with the calls it makes.
addPrettierPluginToESLintConfig(t, u, p, depth) ==
    IF depth > StackLimit THEN Thrown(t, u, "RangeError")
    ELSE IF AlreadyUpdated(u, p) THEN Returned(t, u, "AlreadyMerged")
    ELSE LET here == Exists(t, p) IN
    IF ~here.ok THEN Thrown(t, u, "InvalidPath")
    ELSE IF ~here.is THEN Returned(t, u, "Skipped")
    ELSE LET read == ReadJsonFile(t, p) IN
    IF ~read.ok THEN Thrown(t, u, "MalformedConfig")
    ELSE IF ExtendsIsSet(read.val)
    THEN LET target == ExtendsPath(p, read.val) IN
         IF ~target.ok THEN Thrown(t, u, "InvalidPath")
         ELSE LET there == Exists(t, target.path) IN
         IF ~there.ok THEN Thrown(t, u, "InvalidPath")
         ELSE IF ~there.is THEN ExtendsTargetNotFound(t, u, p, target.path)
         ELSE addPrettierPluginToESLintConfig(t, u, target.path, depth + 1)
    ELSE Merged(t, u, p, read.val)

-----------------------------------------------------------------------------
(* The workspaces and trees a run may start from. *)

RootKey == <<".eslintrc.json">>
AKey == <<"projects", "a", ".eslintrc.json">>
BKey == <<"projects", "b", ".eslintrc.json">>

Files == {RootKey, AKey, BKey}

\* project.root of a project: the workspace root itself or a folder of it.
ProjectRoots == {EmptyStr, Str(FALSE, <<"projects", "a">>), Str(FALSE, <<"projects", "b">>)}

\* Values of an "extends" field.
ExtendsValues ==
    { Str(FALSE, <<"..", "..", ".eslintrc.json">>),
      Str(FALSE, <<"..", "b", ".eslintrc.json">>),
      Str(FALSE, <<"..", "a", ".eslintrc.json">>),
      Str(FALSE, <<".", "missing.json">>),
      Str(FALSE, <<"projects", "b", ".eslintrc.json">>),
      EmptyStr }

\* Values of an "overrides" field, each with the other fields of its file.
OverridesValues ==
    { <<[hasExtends |-> FALSE, extends |-> <<>>, rest |-> {"files"}], {}>>,
      <<[hasExtends |-> TRUE, extends |-> <<"foo">>, rest |-> {}], {"root"}>>,
      <<[hasExtends |-> TRUE, extends |-> <<"foo", "bar">>, rest |-> {"files"}], {}>> }

Contents ==
    {Absent, Malformed}
    \cup {Text("compact", Cfg(TRUE, e, FALSE, NoOverrides, {})) : e \in ExtendsValues}
    \cup {Text("compact", Cfg(FALSE, EmptyStr, FALSE, NoOverrides, o)) : o \in {{}, {"root"}}}
    \cup {Text("indent2", Cfg(FALSE, EmptyStr, TRUE, v[1], v[2])) : v \in OverridesValues}
    \cup {Text("indent2", Cfg(TRUE, Str(FALSE, <<"..", "..", ".eslintrc.json">>), TRUE,
                              [hasExtends |-> TRUE, extends |-> <<"foo">>, rest |-> {}],
                              {"root"}))}

SeqsUpTo(S, n) == UNION {[1..k -> S] : k \in 0..n}

-----------------------------------------------------------------------------
(* The rules of the chain that follow configureESLint. *)

\* A variant of the chain that configures ESLint after the files are written.
ChainESLintLate ==
    <<"addPrettierDependencies", "writePrettierConfig", "writePrettierIgnore",
      "configureESLint", "configureVSCode", "addTask">>

\* A variant of the chain that registers the install task before configureVSCode.
ChainTaskEarly ==
    <<"configureESLint", "addPrettierDependencies", "writePrettierConfig",
      "writePrettierIgnore", "addTask", "configureVSCode">>

\* The rules ngAdd hands to chain(), in order.
Chain ==
    <<"configureESLint", "addPrettierDependencies", "writePrettierConfig",
      "writePrettierIgnore", "configureVSCode", "addTask">>

\* chain(): the rule that runs after rule r, "done" after the last one.
NextRule(r) ==
    LET k == CHOOSE n \in DOMAIN Chain : Chain[n] = r
    IN  IF k < Len(Chain) THEN Chain[k + 1] ELSE "done"

PackageJsonPath == Str(FALSE, <<"package.json">>)
PrettierConfigPath == Str(FALSE, <<".prettierrc.json">>)
PrettierIgnorePath == Str(FALSE, <<".prettierignore">>)
vsCodePath == Str(FALSE, <<".vscode">>)
extensionsPath == Concat(vsCodePath, Str(FALSE, <<"extensions.json">>))
settingsPath == Concat(vsCodePath, Str(FALSE, <<"settings.json">>))
LaunchPath == Concat(vsCodePath, Str(FALSE, <<"launch.json">>))
prettierExtensionName == "esbenp.prettier-vscode"

\* addPackageJsonDependency with overwrite: true, on the devDependencies.
AddPackageJsonDependency(t, name, version) ==
    LET pkg == Parse(Lookup(t, TreeKey(PackageJsonPath).segs))
        deps == {d \in pkg.devDependencies : d[1] # name} \cup {<<name, version>>}
    IN  WriteJsonFile(t, PackageJsonPath, [pkg EXCEPT !.devDependencies = deps])

\* The object writePrettierConfig writes.
prettierConfig == [singleQuote |-> TRUE]

\* The text writePrettierIgnore writes.
PrettierIgnoreText ==
    [kind |-> "text",
     lines |-> <<"# Ignore artifacts:", ".github", ".nyc_output", "coverage", "dist",
                 "node_modules", "package-lock.json", "test.ts">>]

\* tree.getDir(dir).subfiles: the files the folder holds itself.
Subfiles(t, dir) ==
    {k \in DOMAIN t : /\ Len(k) = Len(dir.segs) + 1
                      /\ SubSeq(k, 1, Len(dir.segs)) = dir.segs
                      /\ t[k] # Absent}

\* A variant that takes the folder to hold files whatever it holds.
AlwaysHasSubfiles(t) == TRUE

\* `if (tree.getDir('.vscode').subfiles.length)`
HasSubfiles(t) == Cardinality(Subfiles(t, vsCodePath)) # 0

NoRecommendations == [hasRecommendations |-> FALSE, recommendations |-> <<>>]

\* readJsonFile of a .vscode file: its object, {} for a missing file.
ReadVSCodeFile(t, p, empty) ==
    IF Lookup(t, TreeKey(p).segs) = Absent THEN empty
    ELSE Parse(Lookup(t, TreeKey(p).segs))

\* extensions.recommendations = extensions.recommendations || [];
\* extensions.recommendations.push(prettierExtensionName)
Recommend(extensions) ==
    [hasRecommendations |-> TRUE,
     recommendations |->
        Append(IF extensions.hasRecommendations THEN extensions.recommendations ELSE <<>>,
               prettierExtensionName)]

\* settings[key] = value
Set(settings, key, value) == {x \in settings : x[1] # key} \cup {<<key, value>>}

\* The three assignments to the settings object.
PrettierSettings(settings) ==
    Set(Set(Set(settings, "editor.defaultFormatter", prettierExtensionName),
            "editor.formatOnSave", "true"),
        "prettier.requireConfig", "true")

\* The files of a workspace next to its ESLint configuration.
PackageJsons ==
    {Text("indent2", [devDependencies |-> d]) :
        d \in {{}, {<<"prettier", "1.0.0">>, <<"eslint", "7.32.0">>}}}

VSCodeFolders ==
    { <<>>,
      TreeKey(LaunchPath).segs :> Text("indent2", {}),
      TreeKey(extensionsPath).segs :>
          Text("indent2", [hasRecommendations |-> TRUE, recommendations |-> <<"foo.bar">>]),
      TreeKey(settingsPath).segs :>
          Text("indent2", {<<"editor.formatOnSave", "false">>, <<"editor.tabSize", "2">>}),
      (TreeKey(extensionsPath).segs :> Text("compact", NoRecommendations))
          @@ (TreeKey(settingsPath).segs :> Text("compact", {})),
      (TreeKey(extensionsPath).segs :>
          Text("indent2", [hasRecommendations |-> TRUE,
                           recommendations |-> <<"esbenp.prettier-vscode">>]))
          @@ (TreeKey(settingsPath).segs :> Malformed) }

OtherFiles ==
    { (TreeKey(PackageJsonPath).segs :> pkg) @@ rc @@ ig @@ vs :
        pkg \in PackageJsons,
        rc \in {<<>>, TreeKey(PrettierConfigPath).segs :> Text("compact", [singleQuote |-> FALSE])},
        ig \in {<<>>, TreeKey(PrettierIgnorePath).segs :> [kind |-> "text", lines |-> <<"dist">>]},
        vs \in VSCodeFolders }

\* ESLint configurations for the runs of the whole chain.
ChainConfigs ==
    { (RootKey :> r) @@ (AKey :> a) @@ (BKey :> Absent) :
        r \in {Absent, Malformed, Text("compact", EmptyObject)},
        a \in {Absent,
                Text("compact", Cfg(TRUE, Str(FALSE, <<"..", "..", ".eslintrc.json">>),
                                    FALSE, NoOverrides, {}))} }

-----------------------------------------------------------------------------
(* The run. *)

Init ==
    /\ tree \in [Files -> Contents]
    /\ projects \in SeqsUpTo(ProjectRoots, MaxProjects)
    /\ updatedESLintConfigs = {}
    /\ rule = Chain[1]
    /\ nextStart = 1
    /\ error = "none"
    /\ outcome = "none"
    /\ tree0 = tree
    /\ treeBefore = tree
    /\ errorArgs = <<>>
    /\ starts = <<>>
    /\ tasks = <<>>
    /\ runs = 1

\* A variant that walks the projects from the last to the first.
StartPathReversed(k) ==
    IF k <= Len(projects)
    THEN Normalize(Concat(projects[Len(projects) + 1 - k], fileName)).path
    ELSE fileName

\* The starting points: one per project, then the workspace root's file.
StartPath(k) ==
    IF k <= Len(projects) THEN Normalize(Concat(projects[k], fileName)).path
    ELSE fileName

\* A variant that catches the exception of a call and goes on.
StartCaught(p) ==
    LET r == addPrettierPluginToESLintConfig(tree, updatedESLintConfigs, p, 1)
    IN  /\ tree' = r.tree
        /\ updatedESLintConfigs' = r.updated
        /\ error' = r.error
        /\ outcome' = r.outcome
        /\ rule' = rule
        /\ nextStart' = nextStart + 1
        /\ treeBefore' = tree
        /\ errorArgs' = r.args
        /\ starts' = Append(starts, p)
        /\ UNCHANGED <<projects, tree0, tasks, runs>>

\* A top-level call of addPrettierPluginToESLintConfig and what the rule does
\* with its result: an exception rejects the run.
Start(p) ==
    LET r == addPrettierPluginToESLintConfig(tree, updatedESLintConfigs, p, 1)
    IN  /\ tree' = r.tree
        /\ updatedESLintConfigs' = r.updated
        /\ error' = r.error
        /\ outcome' = r.outcome
        /\ rule' = IF r.error = "none" THEN rule ELSE "rejected"
        /\ nextStart' = nextStart + 1
        /\ treeBefore' = tree
        /\ errorArgs' = r.args
        /\ starts' = Append(starts, p)
        /\ UNCHANGED <<projects, tree0, tasks, runs>>

\* One turn of the loop over workspace.projects.
ProjectStart ==
    /\ rule = "configureESLint"
    /\ nextStart <= Len(projects)
    /\ Start(StartPath(nextStart))

\* The call for the workspace root's file, after the loop.
RootStart ==
    /\ rule = "configureESLint"
    /\ nextStart = Len(projects) + 1
    /\ Start(fileName)

\* A variant of the final check that never finds the memo empty.
NeverNothingUpdated(u) == FALSE

\* `Object.keys(updatedESLintConfigs).length === 0`
NothingUpdated(u) == Cardinality(u) = 0

\* The check that ends configureESLint: it throws when nothing was updated,
\* and otherwise the chain goes on to its next rule.
CheckUpdated ==
    /\ rule = "configureESLint"
    /\ nextStart = Len(projects) + 2
    /\ IF NothingUpdated(updatedESLintConfigs)
       THEN /\ error' = "NoConfigurationFound"
            /\ rule' = "rejected"
       ELSE /\ error' = "none"
            /\ rule' = NextRule("configureESLint")
    /\ UNCHANGED <<tree, projects, updatedESLintConfigs, nextStart, outcome,
                   tree0, treeBefore, errorArgs, starts, tasks, runs>>

Next == ProjectStart \/ RootStart \/ CheckUpdated

Spec == Init /\ [][Next]_vars

\* A rule of the chain that only rewrites the tree.
TreeRule(name, t) ==
    /\ rule = name
    /\ tree' = t
    /\ rule' = NextRule(name)
    /\ UNCHANGED <<projects, updatedESLintConfigs, nextStart, error, outcome,
                   tree0, treeBefore, errorArgs, starts, tasks, runs>>

addPrettierDependencies ==
    TreeRule("addPrettierDependencies",
             AddPackageJsonDependency(
                 AddPackageJsonDependency(tree, "prettier", "2.4.1"),
                 "eslint-config-prettier", "8.3.0"))

writePrettierConfig ==
    TreeRule("writePrettierConfig", WriteJsonFile(tree, PrettierConfigPath, prettierConfig))

writePrettierIgnore ==
    TreeRule("writePrettierIgnore", WriteTextFile(tree, PrettierIgnorePath, PrettierIgnoreText))

\* commentJson.parse throws on a .vscode file that is not JSON; both files are
\* read before either is written.
VSCodeUnparsable(t) ==
    \E q \in {extensionsPath, settingsPath} : Lookup(t, TreeKey(q).segs) = Malformed

configureVSCode ==
    /\ rule = "configureVSCode"
    /\ IF HasSubfiles(tree) /\ VSCodeUnparsable(tree)
       THEN /\ tree' = tree
            /\ rule' = "rejected"
            /\ error' = "MalformedConfig"
       ELSE /\ tree' = IF HasSubfiles(tree)
                       THEN WriteJsonFile(
                                WriteJsonFile(tree, extensionsPath,
                                              Recommend(ReadVSCodeFile(tree, extensionsPath,
                                                                       NoRecommendations))),
                                settingsPath,
                                PrettierSettings(ReadVSCodeFile(tree, settingsPath, {})))
                       ELSE tree
            /\ rule' = NextRule("configureVSCode")
            /\ error' = error
    /\ UNCHANGED <<projects, updatedESLintConfigs, nextStart, outcome,
                   tree0, treeBefore, errorArgs, starts, tasks, runs>>

\* context.addTask(new NodePackageInstallTask())
addTask ==
    /\ rule = "addTask"
    /\ tasks' = Append(tasks, "node-package")
    /\ rule' = NextRule("addTask")
    /\ UNCHANGED <<tree, projects, updatedESLintConfigs, nextStart, error, outcome,
                   tree0, treeBefore, errorArgs, starts, runs>>

\* The whole schematic, on workspaces with files next to the ESLint configuration.
InitNgAdd ==
    /\ tree \in {c @@ o : c \in ChainConfigs, o \in OtherFiles}
    /\ projects \in SeqsUpTo(ProjectRoots, MaxProjects)
    /\ updatedESLintConfigs = {}
    /\ rule = Chain[1]
    /\ nextStart = 1
    /\ error = "none"
    /\ outcome = "none"
    /\ tree0 = tree
    /\ treeBefore = tree
    /\ errorArgs = <<>>
    /\ starts = <<>>
    /\ tasks = <<>>
    /\ runs = 1

ngAdd ==
    \/ ProjectStart
    \/ RootStart
    \/ CheckUpdated
    \/ addPrettierDependencies
    \/ writePrettierConfig
    \/ writePrettierIgnore
    \/ configureVSCode
    \/ addTask

SpecNgAdd == InitNgAdd /\ [][ngAdd]_vars

\* The schematic is run again on the tree a completed run has left: the rule
\* function configureESLint returns starts with a new memo, the loop starts
\* over, and the run has a context of its own.
RunAgain ==
    /\ rule = "done"
    /\ runs < MaxRuns
    /\ runs' = runs + 1
    /\ updatedESLintConfigs' = {}
    /\ rule' = Chain[1]
    /\ nextStart' = 1
    /\ error' = "none"
    /\ outcome' = "none"
    /\ treeBefore' = tree
    /\ errorArgs' = <<>>
    /\ starts' = <<>>
    /\ tasks' = <<>>
    /\ UNCHANGED <<tree, projects, tree0>>

ngAddRuns == ngAdd \/ RunAgain

SpecRuns == InitNgAdd /\ [][ngAddRuns]_vars

-----------------------------------------------------------------------------
(* Vocabulary of the properties. *)

IsJson(text) == text # Absent /\ text # Malformed

\* The override-extension list of a file text, empty when it has none.
OverridesList(text) ==
    IF IsJson(text) /\ text.val.hasOverrides /\ text.val.overrides.hasExtends
    THEN text.val.overrides.extends
    ELSE <<>>

Count(seq, x) == Cardinality({n \in DOMAIN seq : seq[n] = x})

\* How many 'prettier' entries the run has added to a file so far.
Added(f) == Count(OverridesList(tree[f]), "prettier") - Count(OverridesList(tree0[f]), "prettier")

EndsWithPrettier(text) ==
    LET list == OverridesList(text)
    IN  list # <<>> /\ list[Len(list)] = "prettier"

\* The starting points that have been processed, and the latest of them.
Processed == 1..(nextStart - 1)

Latest == nextStart - 1

FileAt(t, p) == Lookup(t, TreeKey(p).segs)

\* The file at p has an extends field that is set and whose target lies in the tree root.
Extending(t, p) ==
    /\ TreeKey(p).ok
    /\ IsJson(FileAt(t, p))
    /\ FileAt(t, p).val.hasExtends
    /\ FileAt(t, p).val.extends # EmptyStr
    /\ ExtendsPath(p, FileAt(t, p).val).ok
    /\ TreeKey(ExtendsPath(p, FileAt(t, p).val).path).ok

TargetOf(t, p) == ExtendsPath(p, FileAt(t, p).val).path

RECURSIVE Dangling(_, _, _)
\* Within n hops the chain that starts at p reaches a file whose extends target
\* does not exist.
Dangling(t, p, n) ==
    /\ Extending(t, p)
    /\ \/ FileAt(t, TargetOf(t, p)) = Absent
       \/ n > 0 /\ Dangling(t, TargetOf(t, p), n - 1)

RECURSIVE Cyclic(_, _, _)
\* The chain that starts at p goes on for more than n hops: with n the number
\* of files, it runs into a cycle.
Cyclic(t, p, n) ==
    /\ Extending(t, p)
    /\ FileAt(t, TargetOf(t, p)) # Absent
    /\ (n = 0 \/ Cyclic(t, TargetOf(t, p), n - 1))

-----------------------------------------------------------------------------
(* C1 .. C10 *)

\* C1 (as claimed): in one run no file receives 'prettier' more than once,
\* however many starting points reach it.
C1_AppendedAtMostOnce == \A f \in Files : Added(f) <= 1

\* A starting point k whose file A extends an existing file B that has no
\* extends field.
C2_Case(k) ==
    /\ Extending(tree0, StartPath(k))
    /\ IsJson(FileAt(tree0, TargetOf(tree0, StartPath(k))))
    /\ ~FileAt(tree0, TargetOf(tree0, StartPath(k))).val.hasExtends

\* C2: once a starting file A that extends an extends-free file B has been
\* processed, B carries the appended directive and A has the content it had
\* before the run.
C2_ChainFollowed ==
    \A k \in Processed :
        C2_Case(k) =>
            /\ Added(TreeKey(TargetOf(tree0, StartPath(k))).segs) >= 1
            /\ EndsWithPrettier(FileAt(tree, TargetOf(tree0, StartPath(k))))
            /\ FileAt(tree, StartPath(k)) = FileAt(tree0, StartPath(k))

C2_Witness ==
    \E k \in Processed :
        /\ C2_Case(k)
        /\ Added(TreeKey(TargetOf(tree0, StartPath(k))).segs) = 1
        /\ FileAt(tree, StartPath(k)) = FileAt(tree0, StartPath(k))

\* C3 (as claimed): when the latest starting point's chain reaches a file whose
\* extends target does not exist, the run fails with the broken-extends-chain
\* error and every file has the content it had before the run.
C3_BrokenChainLeavesTreeAsBeforeRun ==
    (Latest >= 1 /\ Dangling(treeBefore, StartPath(Latest), Cardinality(Files)))
        => (error = "BrokenExtendsChain" /\ tree = tree0)

\* C3 (amended): when the latest starting point's chain reaches a file whose
\* extends target does not exist, the run fails with the broken-extends-chain
\* error and every file has the content it had when that starting point began.
C3_BrokenChainLeavesTreeAsBeforeStart ==
    (Latest >= 1 /\ Dangling(treeBefore, StartPath(Latest), Cardinality(Files)))
        => (error = "BrokenExtendsChain" /\ rule = "rejected" /\ tree = treeBefore)

C3_Witness ==
    /\ Latest >= 2
    /\ Dangling(treeBefore, StartPath(Latest), Cardinality(Files))
    /\ error = "BrokenExtendsChain"
    /\ tree = treeBefore
    /\ tree # tree0

\* C4: when a starting point throws, every file merged for the starting points
\* before it still carries the directive the run appended to it.
C4_NoRollback ==
    outcome = "Thrown" =>
        \A p \in updatedESLintConfigs :
            /\ EndsWithPrettier(FileAt(tree, p))
            /\ Added(TreeKey(p).segs) >= 1

C4_Witness ==
    /\ outcome = "Thrown"
    /\ updatedESLintConfigs # {}
    /\ \A p \in updatedESLintConfigs : Added(TreeKey(p).segs) >= 1

\* No starting point has a file in the tree the run began with.
NoConfigAnywhere == \A k \in 1..(Len(projects) + 1) : FileAt(tree0, StartPath(k)) = Absent

\* C5: once every starting point has been processed without an exception, the
\* pass succeeds exactly when a file was merged and fails with the
\* no-configuration-found error otherwise; it fails so when no starting point
\* has a file.
C5_SucceedsIffMerged ==
    (rule # "configureESLint" /\ outcome # "Thrown") =>
        /\ (rule # "rejected") <=> (updatedESLintConfigs # {})
        /\ (rule = "rejected") <=> (error = "NoConfigurationFound")
        /\ NoConfigAnywhere => error = "NoConfigurationFound"

C5_Witness ==
    /\ rule = "rejected"
    /\ outcome # "Thrown"
    /\ NoConfigAnywhere
    /\ Len(projects) >= 1
    /\ error = "NoConfigurationFound"

\* C6 (as claimed): when the workspace root has no .eslintrc.json the run is
\* rejected and no file is modified, whatever files the projects own.
C6_RootMissingRejects ==
    tree0[RootKey] = Absent =>
        /\ tree = tree0
        /\ rule # "configureESLint" => rule = "rejected"

\* C7: a merge sets the file's override-extension list to the list it had
\* (empty when absent) followed by 'prettier'.
C7_PrettierAppendedLast ==
    /\ \A f \in Files :
        tree[f] # treeBefore[f] =>
            /\ IsJson(treeBefore[f]) /\ IsJson(tree[f])
            /\ tree[f].val.hasOverrides /\ tree[f].val.overrides.hasExtends
            /\ OverridesList(tree[f]) = Append(OverridesList(treeBefore[f]), "prettier")
    /\ outcome = "Merged" => \E f \in Files : tree[f] # treeBefore[f]

C7_Witness ==
    \E f \in Files :
        /\ outcome = "Merged"
        /\ OverridesList(treeBefore[f]) = <<"foo">>
        /\ OverridesList(tree[f]) = <<"foo", "prettier">>

\* C8: a merge leaves the top-level fields other than the overrides block as
\* they were: the same fields with the same values.
C8_OtherFieldsKept ==
    \A f \in Files :
        tree[f] # treeBefore[f] =>
            /\ IsJson(treeBefore[f]) /\ IsJson(tree[f])
            /\ tree[f].val.other = treeBefore[f].val.other
            /\ tree[f].val.hasExtends = treeBefore[f].val.hasExtends
            /\ tree[f].val.extends = treeBefore[f].val.extends

C8_Witness ==
    \E f \in Files :
        /\ outcome = "Merged"
        /\ tree[f] # treeBefore[f]
        /\ treeBefore[f].val.other = {"root"}
        /\ tree[f].val.other = {"root"}

\* C9 (as claimed): when the latest starting point's chain runs into a cycle,
\* the run fails with the cyclic-extends-chain error.
C9_CycleDetected ==
    (Latest >= 1 /\ Cyclic(treeBefore, StartPath(Latest), Cardinality(Files)))
        => error = "CyclicExtendsChain"

\* C10: a starting point whose file does not exist changes nothing: no
\* exception, no write, no new key in the memo, and the run goes on.
C10_MissingStartIsNoOp ==
    [][ (/\ rule = "configureESLint"
         /\ nextStart <= Len(projects) + 1
         /\ FileAt(tree, StartPath(nextStart)) = Absent)
        => (/\ tree' = tree
            /\ updatedESLintConfigs' = updatedESLintConfigs
            /\ error' = "none"
            /\ outcome' = "Skipped"
            /\ rule' = "configureESLint"
            /\ nextStart' = nextStart + 1) ]_vars

C10_Witness ==
    /\ Latest >= 1
    /\ Latest <= Len(projects)
    /\ outcome = "Skipped"
    /\ FileAt(treeBefore, StartPath(Latest)) = Absent
    /\ tree = treeBefore
    /\ rule = "configureESLint"

-----------------------------------------------------------------------------
(* C11 .. C20 *)

\* The starting points the workspace calls for: the config path of each
\* project in insertion order, then the workspace root's file.
ExpectedStarts ==
    [k \in 1..(Len(projects) + 1) |->
        IF k <= Len(projects) THEN Normalize(Concat(projects[k], fileName)).path
        ELSE fileName]

\* The pass over the starting points has ended without an exception of a call.
AllStartsReturned == outcome # "Thrown" /\ nextStart = Len(projects) + 2

\* C11: the top-level calls are the projects' config paths in insertion order,
\* each once, then the workspace root's file, once and last; the memo of one
\* call is the memo the next call starts with.
C11_StartsInWorkspaceOrder ==
    /\ [](/\ Len(starts) <= Len(projects) + 1
          /\ \A k \in 1..Len(starts) : starts[k] = ExpectedStarts[k]
          /\ AllStartsReturned => starts = ExpectedStarts)
    /\ [][updatedESLintConfigs \subseteq updatedESLintConfigs']_vars

C11_Witness ==
    /\ Len(projects) = 2
    /\ projects[1] # projects[2]
    /\ AllStartsReturned
    /\ starts = ExpectedStarts
    /\ starts[3] = fileName
    /\ updatedESLintConfigs # {}

\* C12: once a starting point has thrown the run is rejected and takes no
\* further step; a starting point that returns is followed by the next one.
C12_AbortsOnFirstThrow ==
    [][ /\ rule # "rejected"
        /\ outcome' = "Thrown" => rule' = "rejected"
        /\ (outcome' \in {"Merged", "AlreadyMerged", "Skipped"}
              /\ Len(starts') < Len(projects) + 1)
           => (rule' = "configureESLint" /\ nextStart' = Len(starts') + 1) ]_vars

C12_Witness ==
    /\ outcome = "Thrown"
    /\ rule = "rejected"
    /\ Len(starts) < Len(projects) + 1
    /\ tree # tree0

\* The file key an extends value of the file at `key` denotes: the value
\* resolved against the folder of that file.
DeclaredTargetKey(t, key) ==
    NormSegs(SubSeq(key, 1, Len(key) - 1) \o Lookup(t, key).val.extends.segs, <<>>, TRUE).segs

DeclaresExtends(t, key) ==
    /\ IsJson(Lookup(t, key))
    /\ Lookup(t, key).val.hasExtends
    /\ Lookup(t, key).val.extends # EmptyStr

\* C14 (as claimed): the broken-extends-chain error names the declaring file
\* and the extends value written in it ('../../config' in the example).
C14_ErrorNamesExtendsAsWritten ==
    error = "BrokenExtendsChain" =>
        /\ Len(errorArgs) = 2
        /\ DeclaresExtends(tree, TreeKey(errorArgs[1]).segs)
        /\ errorArgs[2] = FileAt(tree, errorArgs[1]).val.extends

\* C14 (amended): the broken-extends-chain error names the declaring file and
\* the missing target by its resolved path in the workspace.
C14_ErrorNamesResolvedTarget ==
    error = "BrokenExtendsChain" =>
        /\ Len(errorArgs) = 2
        /\ DeclaresExtends(tree, TreeKey(errorArgs[1]).segs)
        /\ TreeKey(errorArgs[2]).ok
        /\ errorArgs[2].segs = DeclaredTargetKey(tree, TreeKey(errorArgs[1]).segs)
        /\ FileAt(tree, errorArgs[2]) = Absent

C14_Witness ==
    /\ error = "BrokenExtendsChain"
    /\ projects = <<Str(FALSE, <<"projects", "a">>)>>
    /\ errorArgs = <<Str(FALSE, AKey), fileName>>
    /\ tree[AKey].val.extends = Str(FALSE, <<"..", "..", ".eslintrc.json">>)

\* C18 (as claimed): the memo holds one key per file, and every top-level call
\* for the workspace root's file uses the key '.eslintrc.json'.
C18_OneKeyPerFile ==
    /\ \A p, q \in updatedESLintConfigs : TreeKey(p).segs = TreeKey(q).segs => p = q
    /\ \A k \in 1..Len(starts) : TreeKey(starts[k]).segs = RootKey => starts[k] = fileName

RECURSIVE ChainEndKey(_, _, _)
\* The last file of the chain that starts at `key`: the first file met that
\* declares no extends, each hop resolved against the folder of the file that
\* declares it (at most n hops).
ChainEndKey(t, key, n) ==
    IF n > 0 /\ DeclaresExtends(t, key)
    THEN ChainEndKey(t, DeclaredTargetKey(t, key), n - 1)
    ELSE key

\* C19: the file a starting point merges is the last file of its chain, each
\* hop resolved against the folder of the declaring file, and no other file
\* changes.
C19_MergesChainEnd ==
    (Latest >= 1 /\ outcome = "Merged") =>
        LET end == ChainEndKey(treeBefore, TreeKey(starts[Len(starts)]).segs, Cardinality(Files))
        IN  /\ end \in Files
            /\ IsJson(treeBefore[end])
            /\ ~DeclaresExtends(treeBefore, end)
            /\ tree[end] # treeBefore[end]
            /\ \A f \in Files \ {end} : tree[f] = treeBefore[f]

C19_Witness ==
    /\ outcome = "Merged"
    /\ starts = <<Str(FALSE, AKey)>>
    /\ treeBefore[AKey].val.extends = Str(FALSE, <<"..", "..", ".eslintrc.json">>)
    /\ treeBefore[RootKey].val.extends = Str(FALSE, <<"projects", "b", ".eslintrc.json">>)
    /\ tree[BKey] # treeBefore[BKey]

\* The terminal files of the starting points whose file exists.
TerminalFiles ==
    { ChainEndKey(tree0, TreeKey(ExpectedStarts[k]).segs, Cardinality(Files)) :
        k \in {j \in 1..(Len(projects) + 1) :
                 Lookup(tree0, TreeKey(ExpectedStarts[j]).segs) # Absent} }

\* C20: after a successful pass every terminal file ends its list with
\* 'prettier', and the files the memo names are exactly the terminal files.
C20_TerminalsMerged ==
    (rule # "configureESLint" /\ rule # "rejected") =>
        /\ \A f \in TerminalFiles : EndsWithPrettier(Lookup(tree, f))
        /\ {TreeKey(p).segs : p \in updatedESLintConfigs} = TerminalFiles

C20_Witness ==
    /\ rule # "configureESLint"
    /\ rule # "rejected"
    /\ Cardinality(TerminalFiles) = 2
    /\ \A f \in TerminalFiles : EndsWithPrettier(Lookup(tree, f))

\* The files the rules after configureESLint read and write.
DependentKeys ==
    {TreeKey(q).segs :
        q \in {PackageJsonPath, PrettierConfigPath, PrettierIgnorePath,
               extensionsPath, settingsPath, LaunchPath}}

\* C13: when the ESLint pass rejects the run, no dependent step has run:
\* package.json, .prettierrc.json, .prettierignore and the .vscode files are
\* as they were and no task is registered.
C13_NoDependentStepAfterFailure ==
    (rule = "rejected" /\ (outcome = "Thrown" \/ error = "NoConfigurationFound")) =>
        /\ \A k \in DependentKeys : Lookup(tree, k) = Lookup(tree0, k)
        /\ tasks = <<>>

C13_Witness ==
    /\ rule = "rejected"
    /\ error = "BrokenExtendsChain"
    /\ Subfiles(tree0, vsCodePath) # {}
    /\ Lookup(tree, TreeKey(PrettierConfigPath).segs) = Absent
    /\ tasks = <<>>

\* C15: a run whose rules all complete has registered the package-install
\* task, and a task is registered only once every other rule has run.
C15_InstallTaskLast ==
    /\ rule = "done" => tasks = <<"node-package">>
    /\ tasks # <<>> => rule = "done"

C15_Witness ==
    /\ rule = "done"
    /\ tasks = <<"node-package">>
    /\ Lookup(tree, TreeKey(settingsPath).segs) # Lookup(tree0, TreeKey(settingsPath).segs)

\* The .vscode files of a tree.
VSCodeFile(t, q) == Lookup(t, TreeKey(q).segs)

OldRecommendations ==
    IF VSCodeFile(tree0, extensionsPath) # Absent
         /\ VSCodeFile(tree0, extensionsPath).val.hasRecommendations
    THEN VSCodeFile(tree0, extensionsPath).val.recommendations
    ELSE <<>>

OldSettings ==
    IF VSCodeFile(tree0, settingsPath) # Absent THEN VSCodeFile(tree0, settingsPath).val
    ELSE {}

\* C16: configureVSCode writes extensions.json and settings.json exactly when
\* the .vscode folder held a file: with none, no .vscode file exists after the
\* step; with one, both exist, the extension is appended to the
\* recommendations and the three settings are set.
C16_VSCodeOnlyWhenFolderHasFiles ==
    /\ rule \in {"configureESLint", "addPrettierDependencies", "writePrettierConfig",
                 "writePrettierIgnore", "configureVSCode", "rejected"}
         => \A q \in {extensionsPath, settingsPath, LaunchPath} :
                VSCodeFile(tree, q) = VSCodeFile(tree0, q)
    /\ rule \in {"addTask", "done"} =>
         IF \A q \in {extensionsPath, settingsPath, LaunchPath} : VSCodeFile(tree0, q) = Absent
         THEN \A q \in {extensionsPath, settingsPath, LaunchPath} : VSCodeFile(tree, q) = Absent
         ELSE /\ VSCodeFile(tree, extensionsPath) # Absent
              /\ VSCodeFile(tree, settingsPath) # Absent
              /\ VSCodeFile(tree, extensionsPath).val.recommendations
                   = Append(OldRecommendations, "esbenp.prettier-vscode")
              /\ {<<"editor.defaultFormatter", "esbenp.prettier-vscode">>,
                  <<"editor.formatOnSave", "true">>,
                  <<"prettier.requireConfig", "true">>}
                   \subseteq VSCodeFile(tree, settingsPath).val
              /\ \A x \in VSCodeFile(tree, settingsPath).val :
                    x[1] \in {"editor.defaultFormatter", "editor.formatOnSave",
                              "prettier.requireConfig"}
                      => x[2] \in {"esbenp.prettier-vscode", "true"}
              /\ \A x \in OldSettings :
                    x[1] \notin {"editor.defaultFormatter", "editor.formatOnSave",
                                 "prettier.requireConfig"}
                      => x \in VSCodeFile(tree, settingsPath).val
              /\ VSCodeFile(tree, LaunchPath) = VSCodeFile(tree0, LaunchPath)

C16_Witness ==
    /\ rule = "done"
    /\ VSCodeFile(tree0, LaunchPath) # Absent
    /\ VSCodeFile(tree0, extensionsPath) = Absent
    /\ VSCodeFile(tree, extensionsPath).val.recommendations = <<"esbenp.prettier-vscode">>
    /\ VSCodeFile(tree, settingsPath) # Absent

-----------------------------------------------------------------------------
(* C21 and C22: what the pass writes, and a second run. *)

RECURSIVE ChainKeys(_, _, _)
\* The files on the chain that starts at key, followed for at most n hops.
ChainKeys(t, key, n) ==
    {key} \cup (IF n > 0 /\ DeclaresExtends(t, key)
                THEN ChainKeys(t, DeclaredTargetKey(t, key), n - 1)
                ELSE {})

\* The files some starting point's chain reaches.
ReachedKeys ==
    UNION { ChainKeys(tree0, TreeKey(ExpectedStarts[k]).segs, Cardinality(Files)) :
              k \in 1..(Len(projects) + 1) }

\* The files whose contents differ from the contents before the run.
ChangedKeys ==
    {k \in DOMAIN tree \cup DOMAIN tree0 : Lookup(tree, k) # Lookup(tree0, k)}

\* C21 (as claimed): the pass changes only files that existed before the run,
\* still exist, have no extends field and lie on some starting point's chain.
C21_WritesOnlyExtendsFreeFiles ==
    \A k \in ChangedKeys :
        /\ IsJson(Lookup(tree0, k))
        /\ IsJson(Lookup(tree, k))
        /\ ~Lookup(tree0, k).val.hasExtends
        /\ k \in ReachedKeys

\* C21 (amended): the pass changes only files that existed before the run,
\* still exist, have no extends field or an empty one, and lie on some
\* starting point's chain; a file whose extends field is set never changes.
C21_WritesOnlyFilesWithoutExtendsTarget ==
    \A k \in ChangedKeys :
        /\ IsJson(Lookup(tree0, k))
        /\ IsJson(Lookup(tree, k))
        /\ ~DeclaresExtends(tree0, k)
        /\ k \in ReachedKeys

C21_Witness ==
    /\ outcome = "Merged"
    /\ ChangedKeys # {}
    /\ \E j \in DOMAIN tree0 : DeclaresExtends(tree0, j) /\ j \in ReachedKeys
    /\ \E j \in DOMAIN tree0 : IsJson(Lookup(tree0, j)) /\ j \notin ReachedKeys

\* C22: the memo starts empty in every run and the merge appends whatever
\* the list holds: once the n-th run on a workspace has completed, each
\* terminal file holds n more 'prettier' entries than before the first run.
C22_OneMorePerRun ==
    rule = "done" =>
        \A f \in TerminalFiles :
            Count(OverridesList(Lookup(tree, f)), "prettier")
              = Count(OverridesList(Lookup(tree0, f)), "prettier") + runs

====
